---- MODULE Spec2Model ----
(***************************************************************************)
(* Terminal input core of rpassword / rprompt / rtoolbox::atty.            *)
(*                                                                         *)
(*   Spec        hidden-input reads (read_password_from_stdin_lock,        *)
(*               read_password_from_tty) on the POSIX and console platform *)
(*   SpecNested  HiddenInput guards acquired and released directly         *)
(*   SpecLines   read_password_from_bufread / read_reply_from_bufread on   *)
(*               an in-memory source                                       *)
(*   SpecAtty    the console platform's atty::is                           *)
(*   SpecPrompt  prompt_reply_from_bufread on an in-memory source and sink *)
(*                                                                         *)
(* Text is a sequence of one-character strings.                            *)
(***************************************************************************)
EXTENDS Integers, Sequences, FiniteSets, TLC

VARIABLES
    platform,    \* "unix" | "windows": which cfg() of the sources is compiled
    stdinKind,   \* what standard input is attached to: "tty" | "pipe" | "file"
    mode,        \* the terminal's mode word (c_lflag on unix, console mode on windows)
    pc,          \* "idle" | "reading": a hidden read blocked in read_line
    live,        \* the HiddenInput values alive, oldest first
    call,        \* the call in progress, or the last one that returned
    nest,        \* SpecNested: bookkeeping of the acquire/release session
    source,      \* SpecLines: the bytes of the in-memory source
    pos,         \* SpecLines: the cursor position in source
    calls,       \* SpecLines: one record per call made on the source
    console,     \* SpecAtty: which standard streams have a console
    nameInfo,    \* SpecAtty: per stream, the outcome of the file-name query
    asked,       \* SpecAtty: the last is(stream) call and its answer
    sink,        \* SpecPrompt: the bytes the writer has received
    pcall,       \* SpecPrompt: the last prompt_reply_from_bufread call
    nprompts     \* SpecPrompt: the number of such calls made

hiddenVars == <<stdinKind, pc, call>>
termVars == <<platform, mode, live>>
nestVars == <<nest>>
lineVars == <<source, pos, calls>>
attyVars == <<console, nameInfo, asked>>
promptVars == <<sink, pcall, nprompts>>
vars == <<hiddenVars, termVars, nestVars, lineVars, attyVars, promptVars>>

(***************************************************************************)
(* Bounds of the model.                                                    *)
(***************************************************************************)
MaxLen == 4
MaxCalls == 5
MaxInput == 2
MaxGuards == 2
MaxPrompts == 2

(***************************************************************************)
(* Program constants.                                                      *)
(***************************************************************************)
ECHO == 8
ECHONL == 64
ENABLE_PROCESSED_INPUT == 1
ENABLE_LINE_INPUT == 2

CR == "\r"
LF == "\n"

(***************************************************************************)
(* Bit operations on mode words.                                           *)
(***************************************************************************)
RECURSIVE BitAnd(_, _)
BitAnd(a, b) ==
    IF a = 0 \/ b = 0 THEN 0
    ELSE (a % 2) * (b % 2) + 2 * BitAnd(a \div 2, b \div 2)

RECURSIVE BitOr(_, _)
BitOr(a, b) ==
    IF a = 0 THEN b
    ELSE IF b = 0 THEN a
    ELSE (IF (a % 2) + (b % 2) > 0 THEN 1 ELSE 0) + 2 * BitOr(a \div 2, b \div 2)

\* x & !flag: the bits of x outside flag (the complement is taken in the
\* width of the mode word, so only the bits of flag are dropped).
BitAndNot(x, flag) == x - BitAnd(x, flag)

(***************************************************************************)
(* io::Result values.                                                      *)
(***************************************************************************)
Ok(v) == [ok |-> TRUE, val |-> v, err |-> "none"]
Err(e) == [ok |-> FALSE, val |-> <<>>, err |-> e]

(***************************************************************************)
(* Line Reader: BufRead::read_line on the bytes buf with the cursor at p   *)
(* (p bytes already consumed).  Reads up to and including the first LF, or *)
(* to the end of the input.                                                *)
(***************************************************************************)
RECURSIVE LineEnd(_, _)
LineEnd(buf, p) ==
    IF p >= Len(buf) THEN Len(buf)
    ELSE IF buf[p + 1] = LF THEN p + 1
    ELSE LineEnd(buf, p + 1)

\* Faulty variant: reads to the end of the input instead of one line.
read_line_to_end(buf, p) == [raw |-> SubSeq(buf, p + 1, Len(buf)), pos |-> Len(buf)]

read_line(buf, p) == [raw |-> SubSeq(buf, p + 1, LineEnd(buf, p)), pos |-> LineEnd(buf, p)]

(***************************************************************************)
(* Line Normalizer (spec 4.4): strips exactly one trailing LF and, if      *)
(* present, the CR preceding it.                                           *)
(***************************************************************************)
normalize(line) ==
    IF Len(line) > 0 /\ line[Len(line)] = LF
    THEN LET cut == SubSeq(line, 1, Len(line) - 1)
         IN  IF Len(cut) > 0 /\ cut[Len(cut)] = CR
             THEN SubSeq(cut, 1, Len(cut) - 1)
             ELSE cut
    ELSE line

fix_new_line(line) == Ok(normalize(line))

fix_line_issues(line) == Ok(normalize(line))

(***************************************************************************)
(* read_password_from_bufread / read_reply_from_bufread.  ioOk is whether  *)
(* the source's read succeeds; a failing read returns its error through    *)
(* the ? operator.  The result carries the raw line and the new cursor.    *)
(***************************************************************************)
\* Faulty variant: returns the raw line, without fix_new_line.
read_password_from_bufread_raw(buf, p, ioOk) ==
    IF ~ioOk THEN [result |-> Err("read"), raw |-> <<>>, pos |-> p]
    ELSE LET r == read_line(buf, p)
         IN  [result |-> Ok(r.raw), raw |-> r.raw, pos |-> r.pos]

read_password_from_bufread(buf, p, ioOk) ==
    IF ~ioOk THEN [result |-> Err("read"), raw |-> <<>>, pos |-> p]
    ELSE LET r == read_line(buf, p)
         IN  [result |-> fix_new_line(r.raw), raw |-> r.raw, pos |-> r.pos]

\* Faulty variant: treats a read of zero bytes as an error.
read_reply_from_bufread_eof_error(buf, p, ioOk) ==
    IF ~ioOk THEN [result |-> Err("read"), raw |-> <<>>, pos |-> p]
    ELSE LET r == read_line(buf, p)
         IN  [result |-> IF r.raw = <<>> THEN Err("eof") ELSE fix_line_issues(r.raw),
              raw |-> r.raw, pos |-> r.pos]

read_reply_from_bufread(buf, p, ioOk) ==
    IF ~ioOk THEN [result |-> Err("read"), raw |-> <<>>, pos |-> p]
    ELSE LET r == read_line(buf, p)
         IN  [result |-> fix_line_issues(r.raw), raw |-> r.raw, pos |-> r.pos]

(***************************************************************************)
(* Hidden-Input Mode Controller, POSIX (mod unix).                         *)
(*                                                                         *)
(* The operating system's part is an input: isTerm says whether the        *)
(* descriptor is a terminal (tcgetattr fails with ENOTTY otherwise) and    *)
(* failAt names the first of the three mode calls of new that fails        *)
(* (0: none).  restoreOk is whether the tcsetattr of drop succeeds.        *)
(***************************************************************************)
FirstFail(isTerm, failAt) == IF isTerm THEN failAt ELSE 1

\* Faulty variant: clears ECHO and leaves ECHONL as it was.
unix_hidden_lflag_no_echonl(c_lflag) == BitAndNot(c_lflag, ECHO)

\* term.c_lflag &= !ECHO; term.c_lflag |= ECHONL;
unix_hidden_lflag(c_lflag) == BitOr(BitAndNot(c_lflag, ECHO), ECHONL)

\* Faulty variant: takes the backup after the hidden mode was applied.
unix_HiddenInput_new_late_backup(fd, m, isTerm, failAt) ==
    LET f == FirstFail(isTerm, failAt)
    IN  IF f = 1 THEN [ok |-> FALSE, mode |-> m, guard |-> <<>>, modeCalls |-> 1]
        ELSE IF f = 2 THEN [ok |-> FALSE, mode |-> m, guard |-> <<>>, modeCalls |-> 2]
        ELSE IF f = 3 THEN [ok |-> FALSE, mode |-> m, guard |-> <<>>, modeCalls |-> 3]
        ELSE [ok |-> TRUE,
              mode |-> unix_hidden_lflag(m),
              guard |-> <<[fd |-> fd, term_orig |-> unix_hidden_lflag(m)]>>,
              modeCalls |-> 3]

unix_HiddenInput_new(fd, m, isTerm, failAt) ==
    LET f == FirstFail(isTerm, failAt)
    IN  \* let mut term = safe_tcgetattr(fd)?;
        IF f = 1 THEN [ok |-> FALSE, mode |-> m, guard |-> <<>>, modeCalls |-> 1]
        \* let term_orig = safe_tcgetattr(fd)?;
        ELSE IF f = 2 THEN [ok |-> FALSE, mode |-> m, guard |-> <<>>, modeCalls |-> 2]
        \* io_result(unsafe { tcsetattr(fd, TCSANOW, &term) })?;
        ELSE IF f = 3 THEN [ok |-> FALSE, mode |-> m, guard |-> <<>>, modeCalls |-> 3]
        ELSE [ok |-> TRUE,
              mode |-> unix_hidden_lflag(m),
              guard |-> <<[fd |-> fd, term_orig |-> m]>>,
              modeCalls |-> 3]

\* tcsetattr(self.fd, TCSANOW, &self.term_orig); its return value is dropped.
unix_HiddenInput_drop(m, hidden_input, restoreOk) ==
    IF restoreOk THEN hidden_input.term_orig ELSE m

(***************************************************************************)
(* Hidden-Input Mode Controller, console platform (mod windows).  failAt   *)
(* is 1 when GetConsoleMode fails, 2 when SetConsoleMode fails.            *)
(***************************************************************************)
windows_new_mode_flags == BitOr(ENABLE_LINE_INPUT, ENABLE_PROCESSED_INPUT)

windows_HiddenInput_new(handle, m, isTerm, failAt) ==
    LET f == FirstFail(isTerm, failAt)
    IN  IF f = 1 THEN [ok |-> FALSE, mode |-> m, guard |-> <<>>, modeCalls |-> 1]
        ELSE IF f = 2 THEN [ok |-> FALSE, mode |-> m, guard |-> <<>>, modeCalls |-> 2]
        ELSE [ok |-> TRUE,
              mode |-> windows_new_mode_flags,
              guard |-> <<[mode |-> m, handle |-> handle]>>,
              modeCalls |-> 2]

\* SetConsoleMode(self.handle, self.mode); its return value is dropped.
windows_HiddenInput_drop(m, hidden_input, restoreOk) ==
    IF restoreOk THEN hidden_input.mode ELSE m

\* The console platform's new makes two mode calls: a failAt past the second
\* names the second.
HiddenInput_new(plat, h, m, isTerm, failAt) ==
    IF plat = "unix" THEN unix_HiddenInput_new(h, m, isTerm, failAt)
    ELSE windows_HiddenInput_new(h, m, isTerm, IF failAt > 2 THEN 2 ELSE failAt)

HiddenInput_drop(plat, m, hidden_input, restoreOk) ==
    IF plat = "unix" THEN unix_HiddenInput_drop(m, hidden_input, restoreOk)
    ELSE windows_HiddenInput_drop(m, hidden_input, restoreOk)

(***************************************************************************)
(* Secret Input Orchestrator.  A call is recorded in `call`:               *)
(*   entry      the public function called                                 *)
(*   path       "hidden" (read_password_from_fd / _handle), "bufread"      *)
(*              (read_password_from_bufread) or "error" (returned before   *)
(*              either)                                                    *)
(*   startMode  the terminal's mode when the call started                  *)
(*   acquired   HiddenInput::new returned Ok                               *)
(*   modeCalls  the terminal-mode queries and mutations the call made      *)
(*   ioOk, raw  the outcome of read_line and the line it read              *)
(*   restoreOk  the outcome of the restore call in drop                    *)
(*   newline    println!() ran (console platform)                          *)
(*   result     the io::Result returned, once done                         *)
(***************************************************************************)
NoCall ==
    [entry |-> "none", path |-> "none", startMode |-> 0, handleOk |-> TRUE,
     acquired |-> FALSE, modeCalls |-> 0, ioOk |-> TRUE, restoreOk |-> TRUE,
     raw |-> <<>>, newline |-> FALSE, result |-> Ok(<<>>), done |-> FALSE]

Chars == {"a", CR, LF}

RECURSIVE Texts(_, _)
Texts(alphabet, n) ==
    IF n = 0 THEN {<<>>}
    ELSE LET shorter == Texts(alphabet, n - 1)
         IN  shorter \cup {Append(t, c) : t \in {u \in shorter : Len(u) = n - 1}, c \in alphabet}

\* What the reader of a hidden read can hold when read_line runs.
TermInputs == Texts(Chars, MaxInput)

UnixModes == {o + e + n : o \in 0..3, e \in {0, ECHO}, n \in {0, ECHONL}}
WindowsModes == 0..7
Modes(plat) == IF plat = "unix" THEN UnixModes ELSE WindowsModes

\* rutil::stdin_is_tty: whether standard input is a terminal.
stdin_is_tty(kind) == kind = "tty"

\* GetFileType(handle) of the standard input handle.
GetFileType(kind) ==
    CASE kind = "tty" -> "FILE_TYPE_CHAR"
      [] kind = "pipe" -> "FILE_TYPE_PIPE"
      [] OTHER -> "FILE_TYPE_DISK"

\* read_password_from_fd / read_password_from_handle up to the blocking
\* read_line: HiddenInput::new(fd)?
read_password_from_fd_begin(plat, entry, h, m, isTerm, failAt) ==
    LET n == HiddenInput_new(plat, h, m, isTerm, failAt)
        c == [NoCall EXCEPT !.entry = entry, !.path = "hidden", !.startMode = m,
                            !.acquired = n.ok, !.modeCalls = n.modeCalls]
    IN  IF n.ok
        THEN [pc |-> "reading", mode |-> n.mode, live |-> n.guard, call |-> c]
        ELSE [pc |-> "idle", mode |-> n.mode, live |-> <<>>,
              call |-> [c EXCEPT !.result = Err("mode"), !.done = TRUE]]

\* Faulty variant: restores the mode only after a successful read.
read_password_from_fd_finish_keep_on_error(plat, c, m, hidden_input, buf, ioOk, restoreOk) ==
    LET r == read_line(buf, 0)
    IN  IF ~ioOk
        THEN [mode |-> m,
              call |-> [c EXCEPT !.ioOk = FALSE, !.restoreOk = restoreOk,
                                 !.result = Err("read"), !.done = TRUE]]
        ELSE [mode |-> HiddenInput_drop(plat, m, hidden_input, restoreOk),
              call |-> [c EXCEPT !.ioOk = TRUE, !.raw = r.raw, !.restoreOk = restoreOk,
                                 !.modeCalls = @ + 1, !.newline = (plat = "windows"),
                                 !.result = fix_new_line(r.raw), !.done = TRUE]]

\* Faulty variant: reports a failing restore call as the call's error.
read_password_from_fd_finish_checked_restore(plat, c, m, hidden_input, buf, ioOk, restoreOk) ==
    LET r == read_line(buf, 0)
        after == HiddenInput_drop(plat, m, hidden_input, restoreOk)
        d == [c EXCEPT !.ioOk = ioOk, !.restoreOk = restoreOk, !.modeCalls = @ + 1,
                       !.done = TRUE]
    IN  IF ~ioOk
        THEN [mode |-> after, call |-> [d EXCEPT !.result = Err("read")]]
        ELSE [mode |-> after,
              call |-> [d EXCEPT !.raw = r.raw, !.newline = (plat = "windows"),
                                 !.result = IF restoreOk THEN fix_new_line(r.raw)
                                            ELSE Err("mode")]]

\* read_password_from_fd / read_password_from_handle from read_line on:
\* reader.read_line(&mut password)?; (println!();) drop(hidden_input);
\* fix_new_line(password.into_inner()).  The ? of a failing read leaves the
\* function, and hidden_input is dropped as it goes out of scope.
read_password_from_fd_finish(plat, c, m, hidden_input, buf, ioOk, restoreOk) ==
    LET r == read_line(buf, 0)
        after == HiddenInput_drop(plat, m, hidden_input, restoreOk)
        d == [c EXCEPT !.ioOk = ioOk, !.restoreOk = restoreOk, !.modeCalls = @ + 1,
                       !.done = TRUE]
    IN  IF ~ioOk
        THEN [mode |-> after, call |-> [d EXCEPT !.result = Err("read")]]
        ELSE [mode |-> after,
              call |-> [d EXCEPT !.raw = r.raw, !.newline = (plat = "windows"),
                                 !.result = fix_new_line(r.raw)]]

\* The not-a-terminal branch: ::read_password_from_bufread(reader).
stdin_lock_bufread(m, buf, ioOk) ==
    LET b == read_password_from_bufread(buf, 0, ioOk)
    IN  [pc |-> "idle", mode |-> m, live |-> <<>>,
         call |-> [NoCall EXCEPT !.entry = "stdin_lock", !.path = "bufread",
                                 !.startMode = m, !.ioOk = ioOk, !.raw = b.raw,
                                 !.result = b.result, !.done = TRUE]]

unix_read_password_from_stdin_lock(kind, m, buf, ioOk, failAt) ==
    IF stdin_is_tty(kind)
    THEN read_password_from_fd_begin("unix", "stdin_lock", "STDIN_FILENO", m, TRUE, failAt)
    ELSE stdin_lock_bufread(m, buf, ioOk)

windows_read_password_from_stdin_lock(kind, m, handleOk, buf, ioOk, failAt) ==
    IF ~handleOk
    THEN [pc |-> "idle", mode |-> m, live |-> <<>>,
          call |-> [NoCall EXCEPT !.entry = "stdin_lock", !.path = "error",
                                  !.startMode = m, !.handleOk = FALSE,
                                  !.result = Err("handle"), !.done = TRUE]]
    ELSE IF GetFileType(kind) = "FILE_TYPE_PIPE"
    THEN stdin_lock_bufread(m, buf, ioOk)
    ELSE read_password_from_fd_begin("windows", "stdin_lock", "STD_INPUT_HANDLE", m,
                                     kind = "tty", failAt)

\* read_password_from_tty: open /dev/tty (CONIN$), then read_password_from_fd.
read_password_from_tty(plat, m, openOk, failAt) ==
    IF ~openOk
    THEN [pc |-> "idle", mode |-> m, live |-> <<>>,
          call |-> [NoCall EXCEPT !.entry = "tty", !.path = "error", !.startMode = m,
                                  !.handleOk = FALSE, !.result = Err("open"),
                                  !.done = TRUE]]
    ELSE read_password_from_fd_begin(plat, "tty", "tty", m, TRUE, failAt)

(***************************************************************************)
(* Spec: hidden-input reads.                                               *)
(***************************************************************************)
Apply(n) ==
    /\ pc' = n.pc
    /\ mode' = n.mode
    /\ live' = n.live
    /\ call' = n.call

NoNest == [base |-> 0, lifo |-> TRUE, lastRestoreOk |-> TRUE, depth |-> 0, acq |-> 0]

Streams == {"Stdin", "Stdout", "Stderr"}

NotAsked == [stream |-> "none", answer |-> FALSE]

NoName == [ok |-> FALSE, name |-> <<>>]

IdleHidden == stdinKind = "tty" /\ pc = "idle" /\ call = NoCall

IdleNest == nest = NoNest

IdleLines == source = <<>> /\ pos = 0 /\ calls = <<>>

IdleAtty ==
    /\ console = [s \in Streams |-> FALSE]
    /\ nameInfo = [s \in Streams |-> NoName]
    /\ asked = NotAsked

NoPrompt ==
    [prompt |-> <<>>, outcome |-> "none", sinkBefore |-> <<>>, posBefore |-> 0,
     events |-> <<>>, result |-> Ok(<<>>), done |-> FALSE]

IdlePrompt == sink = <<>> /\ pcall = NoPrompt /\ nprompts = 0

IdleRest == IdleNest /\ IdleLines /\ IdleAtty /\ IdlePrompt

Init ==
    /\ platform \in {"unix", "windows"}
    /\ stdinKind \in {"tty", "pipe", "file"}
    /\ mode \in Modes(platform)
    /\ pc = "idle"
    /\ live = <<>>
    /\ call = NoCall
    /\ IdleRest

StdinLockUnix ==
    /\ pc = "idle"
    /\ platform = "unix"
    /\ \E buf \in TermInputs, ioOk \in BOOLEAN, failAt \in 0..3 :
          Apply(unix_read_password_from_stdin_lock(stdinKind, mode, buf, ioOk, failAt))
    /\ UNCHANGED <<platform, stdinKind, nestVars, lineVars, attyVars, promptVars>>

StdinLockWindows ==
    /\ pc = "idle"
    /\ platform = "windows"
    /\ \E handleOk \in BOOLEAN, buf \in TermInputs, ioOk \in BOOLEAN, failAt \in 0..2 :
          Apply(windows_read_password_from_stdin_lock(stdinKind, mode, handleOk, buf,
                                                      ioOk, failAt))
    /\ UNCHANGED <<platform, stdinKind, nestVars, lineVars, attyVars, promptVars>>

FromTty ==
    /\ pc = "idle"
    /\ \E openOk \in BOOLEAN, failAt \in 0..3 :
          Apply(read_password_from_tty(platform, mode, openOk, failAt))
    /\ UNCHANGED <<platform, stdinKind, nestVars, lineVars, attyVars, promptVars>>

ReadReturns ==
    /\ pc = "reading"
    /\ \E buf \in TermInputs, ioOk \in BOOLEAN, restoreOk \in BOOLEAN :
          LET n == read_password_from_fd_finish(platform, call, mode, live[1], buf,
                                                ioOk, restoreOk)
          IN  /\ mode' = n.mode
              /\ call' = n.call
    /\ pc' = "idle"
    /\ live' = <<>>
    /\ UNCHANGED <<platform, stdinKind, nestVars, lineVars, attyVars, promptVars>>

Next == StdinLockUnix \/ StdinLockWindows \/ FromTty \/ ReadReturns

Spec == Init /\ [][Next]_vars

(***************************************************************************)
(* Claims on Spec.                                                         *)
(***************************************************************************)
Bit(n, b) == (n \div b) % 2 = 1

ModeBits == {1, 2, 4, 8, 16, 32, 64, 128}

HiddenReturned == pc = "idle" /\ call.done /\ call.path = "hidden" /\ call.acquired

\* C1 (as stated): every hidden-input read whose mode acquisition succeeded
\* returns with the terminal in the mode it had when the call started,
\* whether the line read succeeded or failed.
C1_ModeRestoredAlways == HiddenReturned => mode = call.startMode

\* C1 (amended): every hidden-input read whose mode acquisition succeeded
\* and whose restore call succeeded returns with the terminal in the mode it
\* had when the call started, whether the line read succeeded or failed.
C1_ModeRestoredWhenRestoreSucceeds ==
    (HiddenReturned /\ call.restoreOk) => mode = call.startMode

\* A POSIX hidden read that started with ECHO on, whose read_line failed,
\* has returned with the starting mode.
C1_Witness ==
    /\ HiddenReturned
    /\ platform = "unix"
    /\ ~call.ioOk
    /\ call.restoreOk
    /\ Bit(call.startMode, ECHO)
    /\ mode = call.startMode

\* C2: on POSIX, while the line is read inside a hidden-input scope, the
\* local flags are the captured original flags with ECHO cleared and ECHONL
\* set, every other flag as in the original; the captured original is the
\* mode the call started with.
C2_HiddenFlags ==
    (pc = "reading" /\ platform = "unix") =>
        /\ Len(live) = 1
        /\ live[1].term_orig = call.startMode
        /\ \A b \in ModeBits :
              Bit(mode, b) =
                 (IF b = ECHO THEN FALSE
                  ELSE IF b = ECHONL THEN TRUE
                  ELSE Bit(live[1].term_orig, b))

\* A POSIX read blocked in read_line whose original flags had ECHO on,
\* ECHONL off and other flags on.
C2_Witness ==
    /\ pc = "reading"
    /\ platform = "unix"
    /\ Bit(live[1].term_orig, ECHO)
    /\ ~Bit(live[1].term_orig, ECHONL)
    /\ Bit(live[1].term_orig, 2)
    /\ mode # live[1].term_orig

\* C3: when standard input is not an interactive terminal (a pipe or a
\* redirected file), read_password_from_stdin_lock makes no terminal-mode
\* query or mutation and returns the line read from the reader, normalized
\* (the reader's error when its read fails), on both platforms.
C3_NoModeCallsWhenNotTty ==
    (call.done /\ call.entry = "stdin_lock" /\ stdinKind # "tty") =>
        /\ call.modeCalls = 0
        /\ call.handleOk =>
              call.result = (IF call.ioOk THEN Ok(normalize(call.raw)) ELSE Err("read"))

\* C5: whatever the restore call of the released scope did, the read
\* returns the normalized line when read_line succeeded and the read error
\* when it failed; no error of the restore is reported.
C5_RestoreFailureSwallowed ==
    HiddenReturned =>
        /\ call.result = (IF call.ioOk THEN Ok(normalize(call.raw)) ELSE Err("read"))
        /\ call.result.err # "mode"

\* A hidden read whose restore call failed has returned a non-empty line.
C5_Witness ==
    /\ HiddenReturned
    /\ ~call.restoreOk
    /\ call.result.ok
    /\ Len(call.result.val) > 0
    /\ mode # call.startMode

(***************************************************************************)
(* SpecNested: HiddenInput guards acquired and released directly on one    *)
(* stream, in any order.  A session runs from no live guard to no live     *)
(* guard; nest records, for the session, the mode before its first         *)
(* acquisition (base), whether every release so far released the newest    *)
(* live guard (lifo), the outcome of the last restore call, the deepest    *)
(* nesting reached and the number of acquisitions (saturating).            *)
(***************************************************************************)
RemoveAt(seq, i) == SubSeq(seq, 1, i - 1) \o SubSeq(seq, i + 1, Len(seq))

InitNested ==
    /\ platform \in {"unix", "windows"}
    /\ mode \in Modes(platform)
    /\ live = <<>>
    /\ IdleHidden
    /\ IdleNest
    /\ IdlePrompt
    /\ IdleLines
    /\ IdleAtty

Acquire ==
    /\ Len(live) < MaxGuards
    /\ \E failAt \in 0..3 :
          LET n == HiddenInput_new(platform, "tty", mode, TRUE, failAt)
              fresh == live = <<>>
          IN  /\ mode' = n.mode
              /\ live' = live \o n.guard
              /\ nest' = IF ~n.ok THEN nest
                         ELSE [base |-> IF fresh THEN mode ELSE nest.base,
                               lifo |-> IF fresh THEN TRUE ELSE nest.lifo,
                               lastRestoreOk |-> IF fresh THEN TRUE ELSE nest.lastRestoreOk,
                               depth |-> IF fresh THEN 1
                                         ELSE IF Len(live) + 1 > nest.depth
                                         THEN Len(live) + 1 ELSE nest.depth,
                               acq |-> IF fresh THEN 1
                                       ELSE IF nest.acq <= MaxGuards
                                       THEN nest.acq + 1 ELSE nest.acq]
    /\ UNCHANGED <<platform, hiddenVars, lineVars, attyVars, promptVars>>

Release ==
    /\ \E i \in 1..Len(live), restoreOk \in BOOLEAN :
          /\ mode' = HiddenInput_drop(platform, mode, live[i], restoreOk)
          /\ live' = RemoveAt(live, i)
          /\ nest' = [nest EXCEPT !.lifo = @ /\ i = Len(live),
                                  !.lastRestoreOk = restoreOk]
    /\ UNCHANGED <<platform, hiddenVars, lineVars, attyVars, promptVars>>

NextNested == Acquire \/ Release

SpecNested == InitNested /\ [][NextNested]_vars

TwiceThenReverse == live = <<>> /\ nest.acq = 2 /\ nest.depth = 2 /\ nest.lifo

\* C6 (as stated): after the scope is acquired twice on one stream without
\* releasing the first, and the two guards are released second first, the
\* stream's mode is the mode before the first acquisition.
C6_NestedRestoresAlways == TwiceThenReverse => mode = nest.base

\* C6 (amended): the same, provided the restore call of the last release
\* (the first guard's) succeeds.
C6_NestedRestoresWhenRestoreSucceeds ==
    (TwiceThenReverse /\ nest.lastRestoreOk) => mode = nest.base

\* Two nested POSIX guards on a terminal that started with ECHO on have
\* been released in reverse order and the mode is the starting one.
C6_Witness ==
    /\ TwiceThenReverse
    /\ nest.lastRestoreOk
    /\ platform = "unix"
    /\ Bit(nest.base, ECHO)
    /\ mode = nest.base

(***************************************************************************)
(* SpecLines: successive reads on one in-memory source (a Cursor, whose    *)
(* reads do not fail), by either function.                                 *)
(***************************************************************************)
LineChars == {"a", "b", CR, LF}

InitLines ==
    /\ source \in Texts(LineChars, MaxLen)
    /\ pos = 0
    /\ calls = <<>>
    /\ platform = "unix"
    /\ mode = 0
    /\ live = <<>>
    /\ IdleHidden
    /\ IdleNest
    /\ IdlePrompt
    /\ IdleAtty

Logged(fn, r) ==
    /\ pos' = r.pos
    /\ calls' = Append(calls, [fn |-> fn, before |-> pos, after |-> r.pos,
                               raw |-> r.raw, result |-> r.result])
    /\ UNCHANGED <<source, hiddenVars, termVars, nestVars, attyVars, promptVars>>

ReadPassword ==
    /\ Len(calls) < MaxCalls
    /\ Logged("read_password_from_bufread", read_password_from_bufread(source, pos, TRUE))

ReadReply ==
    /\ Len(calls) < MaxCalls
    /\ Logged("read_reply_from_bufread", read_reply_from_bufread(source, pos, TRUE))

NextLines == ReadPassword \/ ReadReply

SpecLines == InitLines /\ [][NextLines]_vars

(***************************************************************************)
(* Claims on SpecLines.                                                    *)
(***************************************************************************)
\* The source cut after each LF; a last piece without LF when bytes remain.
RECURSIVE Pieces(_)
Pieces(text) ==
    IF text = <<>> THEN <<>>
    ELSE IF \E i \in 1..Len(text) : text[i] = LF
    THEN LET i == CHOOSE k \in 1..Len(text) :
                     text[k] = LF /\ \A j \in 1..(k - 1) : text[j] # LF
         IN  <<SubSeq(text, 1, i)>> \o Pieces(SubSeq(text, i + 1, Len(text)))
    ELSE <<text>>

\* A piece without its terminator, LF or CR LF.
Content(piece) ==
    CASE Len(piece) >= 2 /\ SubSeq(piece, Len(piece) - 1, Len(piece)) = <<CR, LF>> ->
             SubSeq(piece, 1, Len(piece) - 2)
      [] Len(piece) >= 1 /\ piece[Len(piece)] = LF /\
         ~(Len(piece) >= 2 /\ piece[Len(piece) - 1] = CR) ->
             SubSeq(piece, 1, Len(piece) - 1)
      [] OTHER -> piece

RECURSIVE TotalLen(_, _)
TotalLen(pieces, n) == IF n = 0 THEN 0 ELSE Len(pieces[n]) + TotalLen(pieces, n - 1)

\* C7: successive calls return the source's lines one per call and in
\* order; the i-th call starts where the (i-1)-th line ended, consumes the
\* i-th line with its terminator and nothing more, and returns its content,
\* for LF and for CR LF terminators.
C7_LinesInOrder ==
    LET pieces == Pieces(source)
    IN  \A i \in 1..Len(calls) :
           i <= Len(pieces) =>
              /\ calls[i].before = TotalLen(pieces, i - 1)
              /\ calls[i].after = TotalLen(pieces, i)
              /\ calls[i].result = Ok(Content(pieces[i]))

\* Two calls on a source of a CR LF line and an LF line returned the two
\* lines in order.
C7_Witness ==
    /\ source = <<CR, LF, "b", LF>> \/ source = <<"a", LF, "b", LF>>
    /\ Len(calls) >= 2
    /\ calls[1].result.val # calls[2].result.val
    /\ calls[2].result = Ok(<<"b">>)
    /\ pos = Len(source)

IsPlain(t) == \A i \in 1..Len(t) : t[i] # CR /\ t[i] # LF

\* C8: for a text t holding no CR and no LF, the first read on a source of
\* t LF, of t CR LF, or of t alone returns t.
C8_SameResultForAllEndings ==
    \A n \in 0..Len(source) :
       LET t == SubSeq(source, 1, n)
       IN  (/\ IsPlain(t)
            /\ source \in {t, t \o <<LF>>, t \o <<CR, LF>>}
            /\ Len(calls) >= 1) => calls[1].result = Ok(t)

\* The source "ab" CR LF has been read and "ab" returned.
C8_Witness ==
    /\ source = <<"a", "b", CR, LF>>
    /\ Len(calls) >= 1
    /\ calls[1].result = Ok(<<"a", "b">>)

\* C9: normalizing the normalized form of a line read from the source gives
\* the normalized form again.
C9_NormalizeIdempotent ==
    \A i \in 1..Len(calls) :
       normalize(normalize(calls[i].raw)) = normalize(calls[i].raw)

\* A line CR CR LF has been read: its normalized form ends in CR and is not
\* changed by normalizing again.
C9_Witness ==
    \E i \in 1..Len(calls) :
       /\ calls[i].raw = <<CR, CR, LF>>
       /\ normalize(calls[i].raw) = <<CR>>
       /\ normalize(normalize(calls[i].raw)) = <<CR>>

\* C10: every call made with the source at end-of-input, by either
\* function, returns a successful empty string.
C10_EofIsEmptyOk ==
    \A i \in 1..Len(calls) :
       calls[i].before = Len(source) => calls[i].result = Ok(<<>>)

\* After a non-empty source was read to its end, both functions were called
\* at end-of-input, one after the other, and returned Ok("").
C10_Witness ==
    /\ Len(source) > 0
    /\ \E i \in 1..Len(calls) :
          /\ i + 1 <= Len(calls)
          /\ calls[i].before = Len(source)
          /\ calls[i].fn # calls[i + 1].fn
          /\ calls[i].result = Ok(<<>>)
          /\ calls[i + 1].result = Ok(<<>>)

(***************************************************************************)
(* Stream Classifier, console platform (atty.rs, cfg(windows)).            *)
(*                                                                         *)
(* cons[s] is whether GetConsoleMode succeeds on the handle of stream s;   *)
(* nameOk and name are the outcome of GetFileInformationByHandleEx on the  *)
(* requested stream's handle and the file name it reports.                 *)
(***************************************************************************)
RECURSIVE console_on_any(_, _)
console_on_any(cons, fds) ==
    IF fds = <<>> THEN FALSE
    ELSE IF cons[Head(fds)] THEN TRUE
    ELSE console_on_any(cons, Tail(fds))

StartsWith(text, pat) == Len(text) >= Len(pat) /\ SubSeq(text, 1, Len(pat)) = pat

\* str::contains
RECURSIVE contains(_, _)
contains(text, pat) ==
    IF StartsWith(text, pat) THEN TRUE
    ELSE IF text = <<>> THEN FALSE
    ELSE contains(Tail(text), pat)

MSYS == <<"m", "s", "y", "s", "-">>
CYGWIN == <<"c", "y", "g", "w", "i", "n", "-">>
PTY == <<"-", "p", "t", "y">>

\* Faulty variant: accepts a name holding either marker.
msys_tty_on_either_marker(nameOk, name) ==
    IF ~nameOk THEN FALSE
    ELSE LET is_msys == contains(name, MSYS) \/ contains(name, CYGWIN)
             is_pty == contains(name, PTY)
         IN  is_msys \/ is_pty

msys_tty_on(nameOk, name) ==
    \* if res == 0 { return false; }
    IF ~nameOk THEN FALSE
    ELSE LET is_msys == contains(name, MSYS) \/ contains(name, CYGWIN)
             is_pty == contains(name, PTY)
         IN  is_msys /\ is_pty

Others(stream) ==
    CASE stream = "Stdin" -> <<"Stderr", "Stdout">>
      [] stream = "Stderr" -> <<"Stdin", "Stdout">>
      [] OTHER -> <<"Stdin", "Stderr">>

is(cons, stream, nameOk, name) ==
    IF console_on_any(cons, <<stream>>) THEN TRUE
    ELSE IF console_on_any(cons, Others(stream)) THEN FALSE
    ELSE msys_tty_on(nameOk, name)

(***************************************************************************)
(* SpecAtty: is(stream) asked of any stream, under any console attachment  *)
(* and any outcome of the file-name query on each stream.  The file names  *)
(* hold the markers whole, overlapping, in part, or not at all.            *)
(***************************************************************************)
Names ==
    {<<>>,
     <<"\\">> \o MSYS \o <<"1">> \o PTY \o <<"0">>,
     <<"\\">> \o CYGWIN \o <<"1">> \o PTY \o <<"0">>,
     <<"c", "y", "g", "w", "i", "n">> \o PTY,
     PTY \o MSYS,
     <<"\\">> \o MSYS \o <<"1">>,
     <<"\\">> \o CYGWIN \o <<"p", "t", "y">> \o <<"0">>,
     <<"\\">> \o PTY,
     <<"m", "s", "y", "s">> \o <<"1">> \o PTY}

NameInfos == {NoName} \cup {[ok |-> TRUE, name |-> n] : n \in Names}

InitAtty ==
    /\ console \in [Streams -> BOOLEAN]
    /\ nameInfo \in [Streams -> NameInfos]
    /\ asked = NotAsked
    /\ platform = "windows"
    /\ mode = 0
    /\ live = <<>>
    /\ IdleHidden
    /\ IdleNest
    /\ IdlePrompt
    /\ IdleLines

Is ==
    /\ \E stream \in Streams :
          asked' = [stream |-> stream,
                    answer |-> is(console, stream, nameInfo[stream].ok,
                                  nameInfo[stream].name)]
    /\ UNCHANGED <<console, nameInfo, hiddenVars, termVars, nestVars, lineVars, promptVars>>

NextAtty == Is

SpecAtty == InitAtty /\ [][NextAtty]_vars

Occurs(pat, text) ==
    \E i \in 0..(Len(text) - Len(pat)) : SubSeq(text, i + 1, i + Len(pat)) = pat

\* C4: on the console platform is(stream) is true exactly when the
\* requested stream has a console, or no other standard stream has one and
\* the file-name query on the requested stream succeeds with a name holding
\* 'msys-' or 'cygwin-' and also '-pty'; otherwise it is false, and the
\* answer is always a boolean, never an error.
C4_IsExactly ==
    asked.stream # "none" =>
        LET q == nameInfo[asked.stream]
        IN  /\ asked.answer \in BOOLEAN
            /\ asked.answer =
                  (\/ console[asked.stream]
                   \/ /\ \A o \in Streams \ {asked.stream} : ~console[o]
                      /\ q.ok
                      /\ Occurs(MSYS, q.name) \/ Occurs(CYGWIN, q.name)
                      /\ Occurs(PTY, q.name))

\* With no console on any stream, standard input whose file name holds
\* only the suffix marker has been classified as not a terminal, although
\* another stream's name holds both markers.
C4_Witness ==
    /\ asked.stream = "Stdin"
    /\ \A o \in Streams : ~console[o]
    /\ nameInfo["Stdin"] = [ok |-> TRUE, name |-> <<"\\">> \o PTY]
    /\ nameInfo["Stdout"].ok
    /\ Occurs(MSYS, nameInfo["Stdout"].name) /\ Occurs(PTY, nameInfo["Stdout"].name)
    /\ asked.answer = FALSE

(***************************************************************************)
(* Prompt Orchestrator.                                                    *)
(*                                                                         *)
(* print_writer (spec 4.6) writes the prompt verbatim to the sink, adds    *)
(* nothing, and flushes.  outcome is what the sink does: "ok", "write" (the *)
(* write fails after k bytes of the prompt went out) or "flush" (the flush *)
(* fails).  events lists the operations on sink and source in order.       *)
(***************************************************************************)
print_writer(snk, prompt, outcome, k) ==
    CASE outcome = "write" ->
             [sink |-> snk \o SubSeq(prompt, 1, k), result |-> Err("write"),
              events |-> <<"write">>]
      [] outcome = "flush" ->
             [sink |-> snk \o prompt, result |-> Err("flush"),
              events |-> <<"write", "flush">>]
      [] OTHER ->
             [sink |-> snk \o prompt, result |-> Ok(<<>>),
              events |-> <<"write", "flush">>]

\* Faulty variant: reads the reply first and writes the prompt afterwards.
prompt_reply_from_bufread_read_first(buf, p, snk, prompt, outcome, k) ==
    LET r == read_reply_from_bufread(buf, p, TRUE)
        w == print_writer(snk, prompt, outcome, k)
    IN  [sink |-> w.sink, pos |-> r.pos,
         result |-> IF w.result.ok THEN r.result ELSE w.result,
         events |-> <<"read">> \o w.events]

\* print_writer(writer, prompt).and_then(|_| read_reply_from_bufread(reader))
prompt_reply_from_bufread(buf, p, snk, prompt, outcome, k) ==
    LET w == print_writer(snk, prompt, outcome, k)
    IN  IF w.result.ok
        THEN LET r == read_reply_from_bufread(buf, p, TRUE)
             IN  [sink |-> w.sink, pos |-> r.pos, result |-> r.result,
                  events |-> w.events \o <<"read">>]
        ELSE [sink |-> w.sink, pos |-> p, result |-> w.result, events |-> w.events]

(***************************************************************************)
(* SpecPrompt: successive prompt_reply_from_bufread calls on one source    *)
(* and one sink.                                                           *)
(***************************************************************************)
Prompts == {<<>>, <<"P">>, <<"P", ":", " ">>, <<"P", LF>>}

InitPrompt ==
    /\ source \in Texts(LineChars, MaxInput)
    /\ pos = 0
    /\ calls = <<>>
    /\ sink = <<>>
    /\ pcall = NoPrompt
    /\ nprompts = 0
    /\ platform = "unix"
    /\ mode = 0
    /\ live = <<>>
    /\ IdleHidden
    /\ IdleNest
    /\ IdleAtty

PromptReply ==
    /\ nprompts < MaxPrompts
    /\ \E prompt \in Prompts, outcome \in {"ok", "write", "flush"} :
          \E k \in 0..(IF outcome = "write" /\ Len(prompt) > 0 THEN Len(prompt) - 1 ELSE 0) :
             LET n == prompt_reply_from_bufread(source, pos, sink, prompt, outcome, k)
             IN  /\ sink' = n.sink
                 /\ pos' = n.pos
                 /\ pcall' = [prompt |-> prompt, outcome |-> outcome,
                              sinkBefore |-> sink, posBefore |-> pos,
                              events |-> n.events, result |-> n.result, done |-> TRUE]
    /\ nprompts' = nprompts + 1
    /\ UNCHANGED <<source, calls, hiddenVars, termVars, nestVars, attyVars>>

NextPrompt == PromptReply

SpecPrompt == InitPrompt /\ [][NextPrompt]_vars

Rest(text, n) == SubSeq(text, n + 1, Len(text))

\* C11: prompt_reply_from_bufread writes exactly the prompt to the sink,
\* nothing before or after it, before it reads from the source, and returns
\* the first unread line of the source, normalized, consuming that line
\* only; when writing the prompt fails the error is returned and nothing is
\* read or consumed from the source.
C11_PromptThenRead ==
    pcall.done =>
        IF pcall.outcome = "ok"
        THEN LET pieces == Pieces(Rest(source, pcall.posBefore))
             IN  /\ sink = pcall.sinkBefore \o pcall.prompt
                 /\ pcall.events = <<"write", "flush", "read">>
                 /\ pcall.result = Ok(IF pieces = <<>> THEN <<>> ELSE Content(pieces[1]))
                 /\ pos = pcall.posBefore + (IF pieces = <<>> THEN 0 ELSE Len(pieces[1]))
        ELSE /\ ~pcall.result.ok
             /\ pcall.result.err = pcall.outcome
             /\ pos = pcall.posBefore
             /\ \A i \in 1..Len(pcall.events) : pcall.events[i] # "read"

\* After a first call that failed and consumed nothing, a second
\* call wrote "P: " to the sink and returned the line "a" of the source
\* "a" LF.
C11_Witness ==
    /\ pcall.done
    /\ nprompts = 2
    /\ pcall.outcome = "ok"
    /\ pcall.posBefore = 0
    /\ pcall.prompt = <<"P", ":", " ">>
    /\ source = <<"a", LF>>
    /\ sink = pcall.sinkBefore \o <<"P", ":", " ">>
    /\ pcall.sinkBefore = <<"P">>
    /\ pcall.result = Ok(<<"a">>)
    /\ pos = 2

====
